---------------------------- MODULE Spec2Model ----------------------------
(***************************************************************************)
(* A model of src/Math.js (JSXGraph): the matrix kernel, JXG.memoizer with *)
(* factorial and binomial, and JXG.Math.normalize.                         *)
(*                                                                         *)
(* JavaScript numbers are modelled as exact rationals extended with the    *)
(* IEEE-754 special values (signed zero, +/-Infinity, NaN).  The inputs    *)
(* are small integers and halves.  Rounding is not modelled: a result that *)
(* binary64 would round is represented by its exact value.                 *)
(***************************************************************************)
EXTENDS Integers, Sequences, FiniteSets, TLC

VARIABLES
    stdform,    \* normalize: the 8-slot record being normalized in place
    prevform,   \* normalize: the record as it was before the last call
    ncalls,     \* number of top-level operations performed so far
    matM,       \* matrix kernel: the matrix the caller holds
    matR,       \* matrix kernel: the result of the last operation
    matOp,      \* matrix kernel: name of the last operation
    memo,       \* memoizer: the .memo property of every function object
    inner,      \* memoizer: the closure variable f of every wrapper
    cache,      \* memoizer: the closure variable cache of every wrapper
    table,      \* memoizer: the user's pure function, as its value table
    evals,      \* memoizer: how often each body was evaluated, per tuple
    applied,    \* memoizer: how often each wrapper applied its f, per tuple
    called,     \* memoizer: the <<wrapper, tuple>> pairs called so far
    last        \* memoizer: the last operation and what it returned

vars == <<stdform, prevform, ncalls, matM, matR, matOp,
          memo, inner, cache, table, evals, applied, called, last>>

normVars == <<stdform, prevform>>
matVars  == <<matM, matR, matOp>>
memoVars == <<memo, inner, cache, table, evals, applied, called, last>>

(***************************************************************************)
(* Bounds of the model.                                                    *)
(***************************************************************************)
MaxNormCalls == 2   \* calls of normalize on one record
MaxC  == 1          \* |c|  of the input stdform
MaxB  == 1          \* |b0|, |b1| of the input stdform
MaxA2 == 2          \* |2a| of the input stdform (a ranges over halves)
MaxK  == 2          \* |k|  of the input stdform
MaxRows  == 2       \* rows of the caller's matrix
MaxCols  == 2       \* columns of the caller's matrix
MaxEntry == 2       \* entries of the caller's matrix are 0..MaxEntry
MaxCalls == 2       \* calls of memoized functions in one run
MaxFns   == 7       \* function objects in one run (3 bodies and the wrappers)
MaxFactArg  == 3    \* factorial is called with n in -1..MaxFactArg
MaxBinomArg == 4    \* binomial is called with n in 0..MaxBinomArg, k in -1..n+1

(***************************************************************************)
(* JavaScript numbers.                                                     *)
(***************************************************************************)
RECURSIVE Gcd(_, _)
Gcd(a, b) == IF b = 0 THEN a ELSE Gcd(b, a % b)

AbsInt(i) == IF i < 0 THEN -i ELSE i

NaN == [k |-> "nan", n |-> 0, d |-> 1, neg |-> FALSE]
Inf(neg) == [k |-> "inf", n |-> 0, d |-> 1, neg |-> neg]
Zero(neg) == [k |-> "fin", n |-> 0, d |-> 1, neg |-> neg]

\* the finite number n/d (d # 0), reduced; sgn is the sign bit used if n = 0
Fin(n, d, sgn) ==
    IF n = 0 THEN Zero(sgn)
    ELSE LET g == Gcd(AbsInt(n), AbsInt(d))
             s == IF d < 0 THEN -1 ELSE 1
         IN [k |-> "fin", n |-> (s * n) \div g, d |-> (s * d) \div g,
             neg |-> (s * n < 0)]

Num(i) == Fin(i, 1, FALSE)
Half(i) == Fin(i, 2, FALSE)

IsNaN(x) == x.k = "nan"
IsFinite(x) == x.k = "fin"
IsZero(x) == x.k = "fin" /\ x.n = 0

\* unary minus
Neg(x) == IF x.k = "nan" THEN NaN ELSE [x EXCEPT !.n = -x.n, !.neg = ~x.neg]

\* x * y
Mul(x, y) ==
    LET sg == (x.neg # y.neg) IN
    IF IsNaN(x) \/ IsNaN(y) THEN NaN
    ELSE IF x.k = "inf" \/ y.k = "inf"
         THEN IF IsZero(x) \/ IsZero(y) THEN NaN ELSE Inf(sg)
    ELSE Fin(x.n * y.n, x.d * y.d, sg)

\* x / y
Div(x, y) ==
    LET sg == (x.neg # y.neg) IN
    IF IsNaN(x) \/ IsNaN(y) THEN NaN
    ELSE IF x.k = "inf" THEN (IF y.k = "inf" THEN NaN ELSE Inf(sg))
    ELSE IF y.k = "inf" THEN Zero(sg)
    ELSE IF IsZero(y) THEN (IF IsZero(x) THEN NaN ELSE Inf(sg))
    ELSE Fin(x.n * y.d * (IF y.n < 0 THEN -1 ELSE 1), x.d * AbsInt(y.n), sg)

\* x + y
Add(x, y) ==
    IF IsNaN(x) \/ IsNaN(y) THEN NaN
    ELSE IF x.k = "inf"
         THEN (IF y.k = "inf" /\ y.neg # x.neg THEN NaN ELSE x)
    ELSE IF y.k = "inf" THEN y
    ELSE Fin(x.n * y.d + y.n * x.d, x.d * y.d, x.neg /\ y.neg)

\* x - y
Sub(x, y) == Add(x, Neg(y))

\* x == y of JavaScript
NumEq(x, y) ==
    /\ ~IsNaN(x) /\ ~IsNaN(y)
    /\ x.k = y.k
    /\ IF x.k = "inf" THEN x.neg = y.neg ELSE x.n * y.d = y.n * x.d

\* x < y of JavaScript
NumLt(x, y) ==
    /\ ~IsNaN(x) /\ ~IsNaN(y)
    /\ IF x.k = "inf" THEN x.neg /\ ~(y.k = "inf" /\ y.neg)
       ELSE IF y.k = "inf" THEN ~y.neg
       ELSE x.n * y.d < y.n * x.d

NumLe(x, y) == NumLt(x, y) \/ NumEq(x, y)
NumGe(x, y) == NumLe(y, x)
NumGt(x, y) == NumLt(y, x)

\* Math.abs
MathAbs(x) == IF IsNaN(x) THEN NaN ELSE [x EXCEPT !.n = AbsInt(x.n), !.neg = FALSE]

IsSquare(i) == \E r \in 0..i : r * r = i
Isqrt(i) == CHOOSE r \in 0..i : r * r = i

\* Math.sqrt, on the numbers whose root is a rational
MathSqrt(x) ==
    IF IsNaN(x) THEN NaN
    ELSE IF IsZero(x) THEN x
    ELSE IF x.neg THEN NaN
    ELSE IF x.k = "inf" THEN x
    ELSE Fin(Isqrt(x.n), Isqrt(x.d), FALSE)

(***************************************************************************)
(* JXG.Math.normalize.  Slot i of the stdform is element i+1 of the        *)
(* sequence.                                                               *)
(***************************************************************************)
Slot(s, i) == s[i + 1]

\* lines 352-358: the degenerate-to-line branch
NormalizeLine(s) ==
    LET n == MathSqrt(Add(Mul(Slot(s, 1), Slot(s, 1)), Mul(Slot(s, 2), Slot(s, 2))))
    IN <<Div(Slot(s, 0), n), Div(Slot(s, 1), n), Div(Slot(s, 2), n),
         Num(0), Num(1), Slot(s, 5), Slot(s, 6), Slot(s, 7)>>

\* a large-radius branch that leaves slot 4 (k) as it was
NormalizeLargeKeepsK(s, r) ==
    <<Div(Sub(Add(Mul(Slot(s, 6), Slot(s, 6)), Mul(Slot(s, 7), Slot(s, 7))),
              Mul(r, r)), Mul(Num(2), r)),
      Div(Neg(Slot(s, 6)), r),
      Div(Neg(Slot(s, 7)), r),
      Div(Num(1), Mul(Num(2), r)),
      Slot(s, 4), Slot(s, 5), Slot(s, 6), Slot(s, 7)>>

\* lines 359-364: the large-radius branch
NormalizeLarge(s, r) ==
    <<Div(Sub(Add(Mul(Slot(s, 6), Slot(s, 6)), Mul(Slot(s, 7), Slot(s, 7))),
              Mul(r, r)), Mul(Num(2), r)),
      Div(Neg(Slot(s, 6)), r),
      Div(Neg(Slot(s, 7)), r),
      Div(Num(1), Mul(Num(2), r)),
      Num(1), Slot(s, 5), Slot(s, 6), Slot(s, 7)>>

\* lines 365-372: the general (small-radius) branch
NormalizeSmall(s, r) ==
    LET signr == IF NumLe(r, Num(0)) THEN Num(-1) ELSE Num(1)
    IN <<Mul(Mul(signr, Sub(Add(Mul(Slot(s, 6), Slot(s, 6)),
                                Mul(Slot(s, 7), Slot(s, 7))), Mul(r, r))), Half(1)),
         Mul(Neg(signr), Slot(s, 6)),
         Mul(Neg(signr), Slot(s, 7)),
         Div(signr, Num(2)),
         Mul(signr, r), Slot(s, 5), Slot(s, 6), Slot(s, 7)>>

\* lines 345-374
normalize(s) ==
    LET a2 == Mul(Num(2), Slot(s, 3))
        r  == Div(Slot(s, 4), a2)
        s1 == [s EXCEPT ![6] = r,
                        ![7] = Div(Neg(Slot(s, 1)), a2),
                        ![8] = Div(Neg(Slot(s, 2)), a2)]
    IN IF r = Inf(FALSE) \/ IsNaN(r) THEN NormalizeLine(s1)
       ELSE IF NumGe(MathAbs(r), Num(1)) THEN NormalizeLarge(s1, r)
       ELSE NormalizeSmall(s1, r)

\* the stdforms the geometry code hands over: slots 0-4 set, slots 5-7 stale
StdformInputs ==
    { <<Num(c), Num(b0), Num(b1), Half(a2), Num(k), Num(0), Num(0), Num(0)>> :
        c \in -MaxC..MaxC, b0 \in -MaxB..MaxB, b1 \in -MaxB..MaxB,
        a2 \in -MaxA2..MaxA2, k \in -MaxK..MaxK }

\* the inputs on which Math.sqrt of the model is exact
SqrtExact(s) == Slot(s, 3).n = 0 => IsSquare(Slot(s, 1).n * Slot(s, 1).n
                                            + Slot(s, 2).n * Slot(s, 2).n)

NoForm == <<>>

NormInit ==
    /\ stdform \in {s \in StdformInputs : SqrtExact(s)}
    /\ prevform = NoForm
    /\ ncalls = 0

\* a call normalize(stdform): the record is rewritten in place
Normalize ==
    /\ ncalls < MaxNormCalls
    /\ stdform' = normalize(stdform)
    /\ prevform' = stdform
    /\ ncalls' = ncalls + 1
    /\ UNCHANGED <<matVars, memoVars>>

(***************************************************************************)
(* The matrix kernel.  A matrix is a sequence of rows; entries are         *)
(* integers.  A call either returns a value or throws.                     *)
(***************************************************************************)
Returned(v) == [threw |-> FALSE, val |-> v]
Threw == [threw |-> TRUE, val |-> <<>>]

Min(a, b) == IF a < b THEN a ELSE b

\* lines 83-97: n rows of m columns, every entry init (init || 0)
matrix(n, m, init) == [i \in 1..n |-> [j \in 1..m |-> init]]

\* lines 116-121: the two-argument form
identity(n, m) ==
    LET r == matrix(n, m, 0)
    IN [i \in 1..n |-> [j \in 1..m |-> IF i = j /\ i <= Min(n, m) THEN 1 ELSE r[i][j]]]

RECURSIVE SumTo(_, _, _, _, _)
\* lines 139-142: s = 0; for (k = 0; k < m2; k++) s += mat1[i][k] * mat2[k][j]
SumTo(mat1, mat2, i, j, k) ==
    IF k = 0 THEN 0 ELSE SumTo(mat1, mat2, i, j, k - 1) + mat1[i][k] * mat2[k][j]

\* lines 130-147; reading mat2[0].length of an empty mat2 throws a TypeError
matMatMult(mat1, mat2) ==
    LET m  == Len(mat1)
        m2 == Len(mat2)
    IN IF m > 0 /\ m2 = 0 THEN Threw
       ELSE LET n == IF m > 0 THEN Len(mat2[1]) ELSE 0
                res == matrix(m, n, 0)
            IN Returned([i \in DOMAIN res |->
                           [j \in DOMAIN res[i] |-> SumTo(mat1, mat2, i, j, m2)]])

\* a transpose whose inner loop stops one row early
matTransposeShort(M) ==
    LET m  == Len(M)
        n  == IF Len(M) > 0 THEN Len(M[1]) ELSE 0
        MT == matrix(n, m, 0)
    IN [i \in DOMAIN MT |-> [j \in DOMAIN MT[i] |-> IF j < m THEN M[j][i] ELSE MT[i][j]]]

\* lines 154-168
matTranspose(M) ==
    LET m  == Len(M)
        n  == IF Len(M) > 0 THEN Len(M[1]) ELSE 0
        MT == matrix(n, m, 0)
    IN [i \in DOMAIN MT |-> [j \in DOMAIN MT[i] |-> M[j][i]]]

\* the number of columns of a rectangular matrix, as the callers compute it
cols(M) == IF Len(M) > 0 THEN Len(M[1]) ELSE 0

\* the rectangular matrices a caller may hold
Matrices ==
    UNION { [1..n -> [1..m -> 0..MaxEntry]] : n \in 0..MaxRows, m \in 0..MaxCols }

MatInit ==
    /\ matM \in Matrices
    /\ matR = Returned(<<>>)
    /\ matOp = "none"

\* R = matTranspose(M)
Transpose ==
    /\ matOp = "none"
    /\ matR' = Returned(matTranspose(matM))
    /\ matOp' = "T"
    /\ UNCHANGED <<matM, ncalls, normVars, memoVars>>

\* R = matTranspose(R), applied to the result of Transpose
TransposeBack ==
    /\ matOp = "T"
    /\ matR' = Returned(matTranspose(matR.val))
    /\ matOp' = "TT"
    /\ UNCHANGED <<matM, ncalls, normVars, memoVars>>

\* R = matMatMult(M, identity(cols(M), cols(M)))
MultIdentity ==
    /\ matOp = "none"
    /\ matR' = matMatMult(matM, identity(cols(matM), cols(matM)))
    /\ matOp' = "MI"
    /\ UNCHANGED <<matM, ncalls, normVars, memoVars>>

(***************************************************************************)
(* JavaScript values other than numbers, and Array.prototype.join.         *)
(***************************************************************************)
JNum(x)   == [ty |-> "number", num |-> x, str |-> ""]
JStr(s)   == [ty |-> "string", num |-> NaN, str |-> s]
Undefined == [ty |-> "undefined", num |-> NaN, str |-> ""]
JFun(name) == [ty |-> "function", num |-> NaN, str |-> name]

Digits == <<"0", "1", "2", "3", "4", "5", "6", "7", "8", "9">>

RECURSIVE NatToString(_)
NatToString(i) ==
    IF i < 10 THEN Digits[i + 1]
    ELSE NatToString(i \div 10) \o Digits[(i % 10) + 1]

\* String(x) of a number with an integer value, NaN or an infinity
NumberToString(x) ==
    CASE x.k = "nan" -> "NaN"
      [] x.k = "inf" -> IF x.neg THEN "-Infinity" ELSE "Infinity"
      [] x.k = "fin" /\ x.d = 1 ->
            IF x.n < 0 THEN "-" \o NatToString(-x.n) ELSE NatToString(x.n)

\* the string join puts in for one element: "" for undefined
ElementToString(v) ==
    CASE v.ty = "undefined" -> ""
      [] v.ty = "string" -> v.str
      [] v.ty = "number" -> NumberToString(v.num)

\* a key made of the first argument only
joinFirstOnly(args) == IF Len(args) = 0 THEN "" ELSE ElementToString(args[1])

RECURSIVE join(_)
\* line 227: join.call(arguments), the elements separated by ","
join(args) ==
    IF Len(args) = 0 THEN ""
    ELSE IF Len(args) = 1 THEN ElementToString(args[1])
    ELSE join(SubSeq(args, 1, Len(args) - 1)) \o "," \o ElementToString(args[Len(args)])

(***************************************************************************)
(* The function objects.  1, 2 and 3 are the bodies; the wrappers that     *)
(* JXG.memoizer creates are numbered from 4 in the order of creation.      *)
(***************************************************************************)
FactorialBody == 1    \* the function literal of lines 240-244
BinomialBody  == 2    \* the function literal of lines 253-266
UserBody      == 3    \* a pure function f of the caller
Factorial     == 4    \* JXG.Math.factorial, the wrapper made at load time
Binomial      == 5    \* JXG.Math.binomial, the wrapper made at load time
NoFn          == 0    \* an absent .memo property / no wrapped function

RECURSIVE FactorialValueNoZero(_)
\* a factorial whose first test is n <= 0
FactorialValueNoZero(x) ==
    IF NumLe(x, Num(0)) THEN NaN
    ELSE IF NumEq(x, Num(1)) THEN Num(1)
    ELSE Mul(x, FactorialValueNoZero(Sub(x, Num(1))))

RECURSIVE FactorialValue(_)
\* lines 241-243; arguments.callee is the body itself, not the wrapper
FactorialValue(x) ==
    IF NumLt(x, Num(0)) THEN NaN
    ELSE IF NumEq(x, Num(0)) \/ NumEq(x, Num(1)) THEN Num(1)
    ELSE Mul(x, FactorialValue(Sub(x, Num(1))))

RECURSIVE FactorialChain(_)
\* the arguments of the evaluations of the body that one evaluation causes
FactorialChain(x) ==
    IF NumLt(x, Num(0)) \/ NumEq(x, Num(0)) \/ NumEq(x, Num(1)) THEN <<x>>
    ELSE <<x>> \o FactorialChain(Sub(x, Num(1)))

RECURSIVE BinomialLoopOffByOne(_, _, _, _)
\* a loop that multiplies by n-i-1 instead of n-i
BinomialLoopOffByOne(n, k, i, b) ==
    IF NumLt(i, k)
    THEN LET b1 == Mul(b, Sub(n, Add(i, Num(1))))
             b2 == Div(b1, Add(i, Num(1)))
         IN <<b2>> \o BinomialLoopOffByOne(n, k, Add(i, Num(1)), b2)
    ELSE <<>>

RECURSIVE BinomialLoop(_, _, _, _)
\* lines 260-263: the values of b after iterations i, i+1, ..., k-1
BinomialLoop(n, k, i, b) ==
    IF NumLt(i, k)
    THEN LET b1 == Mul(b, Sub(n, i))
             b2 == Div(b1, Add(i, Num(1)))
         IN <<b2>> \o BinomialLoop(n, k, Add(i, Num(1)), b2)
    ELSE <<>>

\* lines 256-264: the value returned and the values b took in the loop
BinomialRun(n, k) ==
    IF NumGt(k, n) \/ NumLt(k, Num(0)) THEN [res |-> Num(0), trace |-> <<>>]
    ELSE IF NumEq(k, Num(0)) \/ NumEq(k, n) THEN [res |-> Num(1), trace |-> <<>>]
    ELSE LET tr == BinomialLoop(n, k, Num(0), Num(1))
         IN [res |-> IF tr = <<>> THEN Num(1) ELSE tr[Len(tr)], trace |-> tr]

\* the argument tuples the callers pass
FactorialArgs == { <<JNum(Num(n))>> : n \in -1..MaxFactArg }
BinomialArgs ==
    { <<JNum(Num(n)), JNum(Num(k))>> : n \in 0..MaxBinomArg, k \in -1..(MaxBinomArg + 1) }
UserArgs ==
    { <<JNum(Num(1)), JNum(Num(2))>>, <<JStr("1,2")>>, <<JNum(Num(1))>>,
      <<JStr("toString")>> }
UserValues == { Undefined, JNum(Num(1)) }

\* one evaluation of a body: its value, the loop trace, and the evaluations
\* of the body it causes (itself first)
BodyRun(g, args) ==
    CASE g = FactorialBody ->
            [res |-> JNum(FactorialValue(args[1].num)), trace |-> <<>>,
             chain |-> [i \in 1..Len(FactorialChain(args[1].num)) |->
                          <<g, <<JNum(FactorialChain(args[1].num)[i])>>>>]]
      [] g = BinomialBody ->
            LET run == BinomialRun(args[1].num, args[2].num)
            IN [res |-> JNum(run.res), trace |-> run.trace, chain |-> <<<<g, args>>>>]
      [] g = UserBody ->
            [res |-> table[args], trace |-> <<>>, chain |-> <<<<g, args>>>>]

\* a bag (element -> count) with one more e
BagAdd(b, e) == IF e \in DOMAIN b THEN [b EXCEPT ![e] = @ + 1] ELSE b @@ (e :> 1)
BagCount(b, e) == IF e \in DOMAIN b THEN b[e] ELSE 0

RECURSIVE BagAddAll(_, _)
BagAddAll(b, es) ==
    IF es = <<>> THEN b ELSE BagAddAll(BagAdd(b, Head(es)), Tail(es))

\* the properties the object literal of line 223 inherits from Object.prototype
InheritedKeys ==
    { "constructor", "hasOwnProperty", "isPrototypeOf", "propertyIsEnumerable",
      "toLocaleString", "toString", "valueOf" }

\* cache[key] of a wrapper's cache object: an own property, else an inherited
\* one, else undefined
CacheGet(c, key) ==
    IF key \in DOMAIN c THEN c[key]
    ELSE IF key \in InheritedKeys THEN JFun(key)
    ELSE Undefined
CachePut(c, key, v) == IF key \in DOMAIN c THEN [c EXCEPT ![key] = v] ELSE c @@ (key :> v)

\* line 229, the test that decides between cache[key] and f.apply
CacheHit(c, key) == CacheGet(c, key).ty # "undefined"

\* a wrapper that never stores what f returned
StoreNothing(c, key, v) == c

\* line 231, the assignment cache[key] = f.apply(this, arguments)
Store(c, key, v) == CachePut(c, key, v)

RECURSIVE Invoke(_, _, _)
\* a call g(args) in store st = [cache, evals, applied]: lines 226-232 for a
\* wrapper, the body otherwise.  Returns the store after the call, the value
\* and, for a body, its loop trace.
Invoke(g, args, st) ==
    IF inner[g] = NoFn
    THEN LET run == BodyRun(g, args)
         IN [st |-> [st EXCEPT !.evals = BagAddAll(@, run.chain)],
             res |-> run.res, trace |-> run.trace, hit |-> FALSE]
    ELSE LET key == join(args)
         IN IF CacheHit(st.cache[g], key)
            THEN [st |-> st, res |-> CacheGet(st.cache[g], key), trace |-> <<>>,
                  hit |-> TRUE]
            ELSE LET r == Invoke(inner[g], args,
                                 [st EXCEPT !.applied = BagAdd(@, <<g, args>>)])
                 IN [st |-> [r.st EXCEPT !.cache[g] = Store(@, key, r.res)],
                     res |-> r.res, trace |-> r.trace, hit |-> FALSE]

RECURSIVE BodyOf(_)
\* the body at the bottom of a chain of wrappers
BodyOf(g) == IF inner[g] = NoFn THEN g ELSE BodyOf(inner[g])

Fns == 1..Len(memo)
Wrappers == { g \in Fns : inner[g] # NoFn }

NoCache == [key \in {} |-> Undefined]
NoBag   == [e \in {} |-> 0]
NoLast  == [op |-> "none", fn |-> NoFn, args |-> <<>>, res |-> Undefined,
            trace |-> <<>>, hit |-> FALSE, fresh |-> FALSE]

\* the state once the file is loaded: lines 240 and 253 have wrapped the two
\* bodies; the caller's f is any pure function of its arguments
MemoInit ==
    /\ memo  = <<Factorial, Binomial, NoFn, NoFn, NoFn>>
    /\ inner = <<NoFn, NoFn, NoFn, FactorialBody, BinomialBody>>
    /\ cache = <<NoCache, NoCache, NoCache, NoCache, NoCache>>
    /\ table \in [UserArgs -> UserValues]
    /\ evals = NoBag
    /\ applied = NoBag
    /\ called = {}
    /\ last = NoLast
    /\ ncalls = 0

\* a memoizer without the test of f.memo: it wraps on every call
MemoizerAlwaysWraps(g) ==
    /\ Len(memo) < MaxFns
    /\ memo' = Append([memo EXCEPT ![g] = Len(memo) + 1], NoFn)
    /\ inner' = Append(inner, g)
    /\ cache' = Append(cache, NoCache)
    /\ last' = [NoLast EXCEPT !.op = "memoizer", !.fn = g,
                              !.res = JNum(Num(Len(memo) + 1)), !.fresh = TRUE]
    /\ UNCHANGED <<table, evals, applied, called, ncalls, normVars, matVars>>

\* lines 217-233: JXG.memoizer(g); the result is the number of the wrapper
Memoizer(g) ==
    /\ IF memo[g] # NoFn
       THEN /\ last' = [NoLast EXCEPT !.op = "memoizer", !.fn = g, !.res = JNum(Num(memo[g]))]
            /\ UNCHANGED <<memo, inner, cache>>
       ELSE /\ Len(memo) < MaxFns
            /\ memo' = Append([memo EXCEPT ![g] = Len(memo) + 1], NoFn)
            /\ inner' = Append(inner, g)
            /\ cache' = Append(cache, NoCache)
            /\ last' = [NoLast EXCEPT !.op = "memoizer", !.fn = g,
                                      !.res = JNum(Num(Len(memo) + 1)), !.fresh = TRUE]
    /\ UNCHANGED <<table, evals, applied, called, ncalls, normVars, matVars>>

\* a top-level call w(args) of a wrapper
Call(w, args) ==
    /\ ncalls < MaxCalls
    /\ LET r == Invoke(w, args, [cache |-> cache, evals |-> evals, applied |-> applied])
       IN /\ cache' = r.st.cache
          /\ evals' = r.st.evals
          /\ applied' = r.st.applied
          /\ last' = [op |-> "call", fn |-> w, args |-> args, res |-> r.res,
                      trace |-> r.trace, hit |-> r.hit, fresh |-> FALSE]
    /\ called' = called \cup {<<w, args>>}
    /\ ncalls' = ncalls + 1
    /\ UNCHANGED <<memo, inner, table, normVars, matVars>>

CallUser == \E w \in Wrappers : BodyOf(w) = UserBody /\ \E args \in UserArgs : Call(w, args)
CallFactorial ==
    \E args \in FactorialArgs : inner[Factorial] = FactorialBody /\ Call(Factorial, args)
CallBinomial ==
    \E args \in BinomialArgs : inner[Binomial] = BinomialBody /\ Call(Binomial, args)
\* memoizer applied to a body, or to a wrapper in the chain around the caller's f
Wrap == \E g \in Fns : (inner[g] = NoFn \/ BodyOf(g) = UserBody) /\ Memoizer(g)

\* when only factorial and binomial are called the caller's f plays no part
CombInit == MemoInit /\ table = [a \in UserArgs |-> Undefined]

MemoIdle ==
    /\ memo = <<>> /\ inner = <<>> /\ cache = <<>> /\ table = <<>>
    /\ evals = <<>> /\ applied = <<>> /\ called = {} /\ last = <<>>

(***************************************************************************)
(* Specifications.  Each one runs one component; the variables of the      *)
(* other components stay at their idle values.                             *)
(***************************************************************************)
NormIdle == stdform = NoForm /\ prevform = NoForm
MatIdle  == matM = <<>> /\ matR = Returned(<<>>) /\ matOp = "none"

NormNext == Normalize
InitNorm == NormInit /\ MatIdle /\ MemoIdle
SpecNorm == InitNorm /\ [][NormNext]_vars

MatNext == Transpose \/ TransposeBack \/ MultIdentity
InitMat == MatInit /\ NormIdle /\ ncalls = 0 /\ MemoIdle
SpecMat == InitMat /\ [][MatNext]_vars

MemoNext == Wrap \/ CallUser
InitMemo == MemoInit /\ NormIdle /\ MatIdle
SpecMemo == InitMemo /\ [][MemoNext]_vars

CombNext == CallFactorial \/ CallBinomial
InitComb == CombInit /\ NormIdle /\ MatIdle
SpecComb == InitComb /\ [][CombNext]_vars

(***************************************************************************)
(* Claims about normalize.                                                 *)
(***************************************************************************)
\* same value in a slot: equal numbers, or both NaN
SameSlot(x, y) == (IsNaN(x) /\ IsNaN(y)) \/ NumEq(x, y)

\* r = k/(2a) of a stdform, computed from its slots 3 and 4
RadiusOf(s) == Div(Slot(s, 4), Mul(Num(2), Slot(s, 3)))

\* C4 (as claimed): a second call of normalize on its own output changes
\* none of the 8 slots.
C4_NormalizeIdempotent ==
    ncalls = 2 => \A i \in 0..7 : SameSlot(Slot(stdform, i), Slot(prevform, i))

\* C5 (as claimed): after normalize on an input with a = 0 and
\* (b0, b1) # (0, 0), whatever k is, slot 3 is 0, slot 4 is 1, slots 1-2 form
\* a unit vector and slot 0 is c divided by the norm of (b0, b1).
C5_LineRegime ==
    (/\ ncalls = 1
     /\ IsZero(Slot(prevform, 3))
     /\ ~(IsZero(Slot(prevform, 1)) /\ IsZero(Slot(prevform, 2))))
    => LET n == MathSqrt(Add(Mul(Slot(prevform, 1), Slot(prevform, 1)),
                             Mul(Slot(prevform, 2), Slot(prevform, 2))))
       IN /\ NumEq(Slot(stdform, 3), Num(0))
          /\ NumEq(Slot(stdform, 4), Num(1))
          /\ NumEq(Add(Mul(Slot(stdform, 1), Slot(stdform, 1)),
                       Mul(Slot(stdform, 2), Slot(stdform, 2))), Num(1))
          /\ NumEq(Mul(Slot(stdform, 0), n), Slot(prevform, 0))

\* the last call ran on a record whose r is finite with |r| >= 1
LargeCase ==
    /\ prevform # NoForm
    /\ IsFinite(RadiusOf(prevform))
    /\ NumGe(MathAbs(RadiusOf(prevform)), Num(1))

\* C6 (as claimed): in the large-radius regime the result has a (slot 3)
\* normalized to 1.
C6_LargeRadiusAIsOne == LargeCase => NumEq(Slot(stdform, 3), Num(1))

\* C6 (amended): in the large-radius regime slots 0-3 are rebuilt from the
\* center (q0, q1) = (-b0/2a, -b1/2a) and r = k/2a of the input, k (slot 4)
\* is normalized to 1 and a (slot 3) is 1/(2r); the coefficients b0, b1, a
\* are those of the input divided by k.
C6_LargeRadiusKIsOne ==
    LargeCase =>
      LET r  == RadiusOf(prevform)
          a2 == Mul(Num(2), Slot(prevform, 3))
          q0 == Div(Neg(Slot(prevform, 1)), a2)
          q1 == Div(Neg(Slot(prevform, 2)), a2)
      IN /\ NumEq(Slot(stdform, 4), Num(1))
         /\ NumEq(Mul(Slot(stdform, 3), Mul(Num(2), r)), Num(1))
         /\ NumEq(Slot(stdform, 5), r)
         /\ NumEq(Slot(stdform, 6), q0) /\ NumEq(Slot(stdform, 7), q1)
         /\ NumEq(Mul(Slot(stdform, 1), r), Neg(q0))
         /\ NumEq(Mul(Slot(stdform, 2), r), Neg(q1))
         /\ NumEq(Mul(Slot(stdform, 0), Mul(Num(2), r)),
                  Sub(Add(Mul(q0, q0), Mul(q1, q1)), Mul(r, r)))
         /\ \A i \in 1..3 : NumEq(Mul(Slot(stdform, i), Slot(prevform, 4)),
                                  Slot(prevform, i))

\* a first call in the large-radius regime with r = -2 and a center off the origin
C6_Witness ==
    /\ ncalls = 1
    /\ LargeCase
    /\ RadiusOf(prevform) = Num(-2)
    /\ ~IsZero(Slot(stdform, 6))
    /\ Slot(stdform, 4) = Num(1)

(***************************************************************************)
(* Claims about the matrix kernel.                                         *)
(***************************************************************************)
\* C7 (as claimed): transposing twice gives back M, for every rectangular M,
\* also one with zero rows or with rows of zero columns.
C7_TransposeInvolution == matOp = "TT" => matR = Returned(matM)

\* C7 (amended): transposing twice gives back M for every rectangular M that
\* has zero rows or at least one column; a matrix of one or more rows of zero
\* columns comes back as the zero-row matrix.
C7_TransposeInvolutionNonDegenerate ==
    matOp = "TT" =>
      IF Len(matM) > 0 /\ cols(matM) = 0
      THEN matR = Returned(<<>>)
      ELSE matR = Returned(matM)

\* a 2-row matrix with a nonzero last row was transposed twice
C7_Witness ==
    /\ matOp = "TT"
    /\ Len(matM) = 2 /\ cols(matM) = 2
    /\ matM[2][1] # matM[1][2] /\ matM[2][2] # 0
    /\ matR.val = matM

\* C8 (as claimed): matMatMult(M, identity(c, c)) with c = cols(M) completes
\* without error and equals M, also for zero rows or zero columns.
C8_MatrixIdentity == matOp = "MI" => matR = Returned(matM)

(***************************************************************************)
(* Claims about the memoizer, factorial and binomial.                      *)
(***************************************************************************)
\* what the body under wrapper w returns for args, evaluated afresh
FreshValue(w, args) == BodyRun(BodyOf(w), args).res

C2_Transparent == last.op = "call" => last.res = FreshValue(last.fn, last.args)

\* the tuples of the caller that join to the same string "1,2"
SameKeyString(t1, t2) ==
    \/ t1 = t2
    \/ {t1, t2} = { <<JNum(Num(1)), JNum(Num(2))>>, <<JStr("1,2")>> }

\* C2 (amended): f'(args) returns what f returns for args or for a tuple
\* called earlier, on this wrapper or one in its chain, that joins to the
\* same string; so it returns f(args) whenever no different tuple with the
\* same joined string was called before.  The exception are arguments that
\* join to the name of a property every object inherits, such as "toString":
\* for them f' returns the inherited property and never calls f.
C2_TransparentUpToKey ==
    last.op = "call" =>
      IF last.args = <<JStr("toString")>>
      THEN last.res = JFun("toString") /\ last.hit
      ELSE \E c \in called :
              /\ BodyOf(c[1]) = BodyOf(last.fn)
              /\ SameKeyString(c[2], last.args)
              /\ last.res = FreshValue(last.fn, c[2])

\* f'(1, 2) was called after f'("1,2") and returned f("1,2"), which differs
\* from f(1, 2)
C2_Witness ==
    /\ last.op = "call" /\ last.hit
    /\ last.args = <<JNum(Num(1)), JNum(Num(2))>>
    /\ <<last.fn, <<JStr("1,2")>>>> \in called
    /\ last.res = table[<<JStr("1,2")>>]
    /\ last.res # table[last.args]

\* C3 (as claimed): memoizer never makes a second wrapper or cache for a
\* function that is wrapped already, whether the original function or the
\* wrapper itself is passed.
C3_NeverDoubleWraps ==
    /\ \A w \in Wrappers : inner[inner[w]] = NoFn
    /\ \A w1, w2 \in Wrappers : inner[w1] = inner[w2] => w1 = w2

\* C3 (amended): memoizer(f) returns the wrapper recorded in f.memo, so
\* passing the same function again returns the one existing wrapper and no
\* function has two wrappers; a wrapper has no memo property of its own until
\* it is passed itself, so memoizer(memoizer(f)) makes a second wrapper, with
\* its own empty cache, around the first.
C3_OneWrapperPerFunction ==
    /\ \A w1, w2 \in Wrappers : inner[w1] = inner[w2] => w1 = w2
    /\ \A g \in Fns : memo[g] # NoFn => memo[g] \in Wrappers /\ inner[memo[g]] = g
    /\ \A w \in Wrappers : memo[inner[w]] = w
    /\ last.op = "memoizer" =>
          /\ last.res = JNum(Num(memo[last.fn]))
          /\ last.fresh => /\ memo[last.fn] = Len(memo)
                           /\ DOMAIN cache[Len(memo)] = {}

\* memoizer(f) was called again after f' had cached a value, and returned f'
C3_Witness ==
    /\ last.op = "memoizer" /\ ~last.fresh
    /\ last.fn = UserBody
    /\ last.res = JNum(Num(6))
    /\ DOMAIN cache[6] # {}
    /\ \E w \in Wrappers : inner[w] = 6

RECURSIVE Pascal(_, _)
\* the binomial coefficient by Pascal's rule, for 0 <= k <= n
Pascal(n, k) == IF k = 0 \/ k = n THEN 1 ELSE Pascal(n - 1, k - 1) + Pascal(n - 1, k)

\* C9: binomial(n, k) returns 0 if k > n or k < 0, 1 if k = 0 or k = n, and
\* the binomial coefficient otherwise, whatever was called before; b is an
\* integer, the coefficient C(n, i+1), after every iteration i of the loop.
C9_BinomialCorrect ==
    (last.op = "call" /\ last.fn = Binomial) =>
      LET n == last.args[1].num.n
          k == last.args[2].num.n
      IN /\ last.res = JNum(Num(IF k > n \/ k < 0 THEN 0
                                ELSE IF k = 0 \/ k = n THEN 1
                                ELSE Pascal(n, k)))
         /\ \A i \in 1..Len(last.trace) : last.trace[i] = Num(Pascal(n, i))
         /\ (~last.hit /\ 0 < k /\ k < n) => Len(last.trace) = k

\* binomial(4, 2) was evaluated: b went 4, 6
C9_Witness ==
    /\ last.op = "call" /\ last.fn = Binomial /\ ~last.hit
    /\ last.args = <<JNum(Num(4)), JNum(Num(2))>>
    /\ last.trace = <<Num(4), Num(6)>>
    /\ last.res = JNum(Num(6))
    /\ ncalls = 2

RECURSIVE RefFactorial(_)
\* n! for n >= 0
RefFactorial(n) == IF n <= 1 THEN 1 ELSE n * RefFactorial(n - 1)

\* the value factorial is to return for the integer n
FactorialExpected(n) == IF n < 0 THEN JNum(NaN) ELSE JNum(Num(RefFactorial(n)))

\* C10: factorial(n) returns NaN for n < 0, 1 for n in {0, 1} and
\* n * factorial(n-1) otherwise, whatever was called before; the cache holds
\* an entry exactly for every argument passed at top level and none for the
\* recursive sub-calls.
C10_FactorialCorrect ==
    /\ (last.op = "call" /\ last.fn = Factorial) =>
          last.res = FactorialExpected(last.args[1].num.n)
    /\ DOMAIN cache[Factorial] =
          { NumberToString(c[2][1].num) : c \in { d \in called : d[1] = Factorial } }
    /\ \A c \in called :
          c[1] = Factorial =>
            cache[Factorial][NumberToString(c[2][1].num)]
              = FactorialExpected(c[2][1].num.n)

\* factorial(3) then factorial(2): two cache entries, the body evaluated
\* twice with 2
C10_Witness ==
    /\ last.op = "call" /\ last.fn = Factorial /\ ~last.hit
    /\ last.args = <<JNum(Num(2))>> /\ last.res = JNum(Num(2))
    /\ <<Factorial, <<JNum(Num(3))>>>> \in called
    /\ DOMAIN cache[Factorial] = {"2", "3"}
    /\ BagCount(evals, <<FactorialBody, <<JNum(Num(2))>>>>) = 2

=============================================================================
